---- MODULE Spec2Model ----
(***************************************************************************)
(* A model of the Expo push client of push_client.go: NewPushClient's      *)
(* defaulting of the configuration and PushClient.PublishMultiple          *)
(* (publishInternal): validation of the batch, the single POST, the status *)
(* check, the decode of the response envelope and the pairing of the       *)
(* results with the messages.  The transport and the server are the        *)
(* environment: what the transport returns is chosen freely.               *)
(***************************************************************************)
EXTENDS Integers, Sequences, FiniteSets, TLC

VARIABLES
    config,      \* the argument of the last NewPushClient call
    client,      \* the *PushClient, or NoClient before construction
    messages,    \* the argument of the last PublishMultiple call
    posted,      \* the requests the transport was asked to send in that call
    resp,        \* the response the transport returned in that call, if any
    bodyRead,    \* whether the response body was read by the decoder
    bodyClosed,  \* whether the response body was closed
    outcome,     \* "none" (no call yet), "returned" or "panicked"
    results,     \* the []PushResponse the call returned
    err          \* the error the call returned

vars == <<config, client, messages, posted, resp, bodyRead, bodyClosed, outcome, results, err>>

(***************************************************************************)
(* Bounds of the model.                                                    *)
(***************************************************************************)
MaxBatch == 2     \* messages in one batch: 0..MaxBatch
MaxData == 3      \* items in a response's data list: 0..MaxData

(***************************************************************************)
(* Go values.  A slice is nil or holds elements; an empty slice that is    *)
(* not nil differs from nil (len 0 for both, but only nil == nil).         *)
(***************************************************************************)
NilSlice == [isNil |-> TRUE, elems |-> <<>>]

MakeSlice(s) == [isNil |-> FALSE, elems |-> s]

SeqsUpTo(S, n) == UNION {[1..k -> S] : k \in 0..n}

(***************************************************************************)
(* Constants of the package.                                               *)
(***************************************************************************)
DefaultHost == "https://exp.host"

DefaultBaseAPIURL == "/--/api/v2"

(***************************************************************************)
(* PushMessage: only its recipients (To) matter to the client; the rest of *)
(* the notification is carried through.  PushMessage{} is the zero value.  *)
(***************************************************************************)
ToLists == {<<>>, <<"">>, <<"A">>, <<"B">>, <<"A", "">>}

PushMessages == [To : ToLists]

ZeroPushMessage == [To |-> <<>>]

Batches == SeqsUpTo(PushMessages, MaxBatch)

(***************************************************************************)
(* The transport (fastshot.ClientHttpMethods): nil, the one built by       *)
(* DefaultHTTPClient, or one the caller injected.                          *)
(***************************************************************************)
NilHTTPClient == [isNil |-> TRUE, host |-> "", headers |-> {}]

InjectedHTTPClient == [isNil |-> FALSE, host |-> "stub", headers |-> {}]

DefaultHTTPClient(host, accessToken) ==
    [isNil   |-> FALSE,
     host    |-> host,
     headers |-> {<<"Content-Type", "application/json">>,
                  <<"Accept", "application/json">>}
                 \cup (IF accessToken # ""
                       THEN {<<"Authorization", "Bearer " \o accessToken>>}
                       ELSE {})]

(***************************************************************************)
(* ClientConfig, and the nil *ClientConfig.                                *)
(***************************************************************************)
NilConfig == [isNil |-> TRUE, Host |-> "", APIURL |-> "", AccessToken |-> "",
              HTTPClient |-> NilHTTPClient]

ClientConfigs ==
    [isNil : {FALSE}, Host : {"", "https://push.test"}, APIURL : {"", "/v1"},
     AccessToken : {"", "tok"}, HTTPClient : {NilHTTPClient, InjectedHTTPClient}]

Configs == {NilConfig} \cup ClientConfigs

NoClient == [constructed |-> FALSE, host |-> "", apiURL |-> "", accessToken |-> "",
             httpClient |-> NilHTTPClient]

\* NewPushClient: the value it returns.
NewClient(cfg) ==
    LET host == IF ~cfg.isNil /\ cfg.Host # "" THEN cfg.Host ELSE DefaultHost
        apiURL == IF ~cfg.isNil /\ cfg.APIURL # ""
                  THEN cfg.APIURL ELSE DefaultBaseAPIURL
        accessToken == IF ~cfg.isNil /\ cfg.AccessToken # ""
                       THEN cfg.AccessToken ELSE ""
        httpClient == IF ~cfg.isNil
                      THEN IF ~cfg.HTTPClient.isNil
                           THEN cfg.HTTPClient
                           ELSE DefaultHTTPClient(host, accessToken)
                      ELSE NilHTTPClient    \* var httpClient stays nil
    IN  [constructed |-> TRUE, host |-> host, apiURL |-> apiURL,
         accessToken |-> accessToken, httpClient |-> httpClient]

(***************************************************************************)
(* Errors.  NilError is Go's nil error.                                    *)
(***************************************************************************)
NilError == [isNil |-> TRUE, type |-> "", msg |-> "", errors |-> NilSlice]

\* errors.New and fmt.Errorf: an error that carries its message.
NewError(msg) == [isNil |-> FALSE, type |-> "error", msg |-> msg, errors |-> NilSlice]

\* What Send returns when the request could not be made.
TransportError ==
    [isNil |-> FALSE, type |-> "transport", msg |-> "connection refused",
     errors |-> NilSlice]

\* What json's Decoder returns for a body that is not JSON.
SyntaxError ==
    [isNil |-> FALSE, type |-> "json.SyntaxError", msg |-> "invalid character",
     errors |-> NilSlice]

\* What json's Decoder returns for JSON that does not fit the Go value.
UnmarshalTypeError ==
    [isNil |-> FALSE, type |-> "json.UnmarshalTypeError",
     msg |-> "cannot unmarshal into Go value of type expo.Response",
     errors |-> NilSlice]

\* NewPushServerError: the message and the batch-level errors it is given.
NewPushServerError(msg, errors) ==
    [isNil |-> FALSE, type |-> "PushServerError", msg |-> msg, errors |-> errors]

(***************************************************************************)
(* What the transport can return: an error, or a response with a status    *)
(* code, a status text and a body.  A body is text that is not JSON, the   *)
(* JSON literal null, a JSON array, a JSON object with a member of the     *)
(* wrong type ("misfit"), or a JSON object whose "errors" and "data"       *)
(* members are each absent, null or a list.                                *)
(***************************************************************************)
Absent == [tag |-> "absent", elems |-> <<>>]

Null == [tag |-> "null", elems |-> <<>>]

List(s) == [tag |-> "list", elems |-> s]

WireItems == {[status |-> "ok", id |-> "r1", message |-> ""],
              [status |-> "error", id |-> "", message |-> "DeviceNotRegistered"]}

ErrorsMembers == {Absent, Null, List(<<>>), List(<<[message |-> "bad"]>>)}

DataMembers == {Absent, Null} \cup {List(s) : s \in SeqsUpTo(WireItems, MaxData)}

NoBody == [kind |-> "none", errors |-> Absent, data |-> Absent]

Bodies ==
    [kind : {"invalid", "null", "array", "misfit"}, errors : {Absent}, data : {Absent}]
    \cup [kind : {"object"}, errors : ErrorsMembers, data : DataMembers]

StatusLines == {<<199, "199 status">>, <<200, "200 OK">>, <<299, "299 status">>,
                <<300, "300 Multiple Choices">>, <<500, "500 Internal Server Error">>}

NoResp == [present |-> FALSE, code |-> 0, status |-> "", body |-> NoBody]

Responses == {[present |-> TRUE, code |-> sl[1], status |-> sl[2], body |-> b] :
                  sl \in StatusLines, b \in Bodies}

Replies == {[err |-> TransportError, resp |-> NoResp]}
           \cup {[err |-> NilError, resp |-> rs] : rs \in Responses}

(***************************************************************************)
(* The decoded envelope, a pointer to Response, and its items.             *)
(***************************************************************************)
\* Response{Errors, Data}: the envelope the body is decoded into.
Response(errors, data) == [isNil |-> FALSE, Errors |-> errors, Data |-> data]

\* var r *Response, before and after decoding the JSON literal null.
NilResponse == [isNil |-> TRUE, Errors |-> NilSlice, Data |-> NilSlice]

\* One item of "data" decoded: the wire fields, and PushMessage left zero.
PushResponse(item) ==
    [Status |-> item.status, ID |-> item.id, Message |-> item.message,
     PushMessage |-> ZeroPushMessage]

\* encoding/json on a slice field: a JSON list makes a slice that is not nil,
\* even when the list is empty; null or a missing member leaves it nil.
DecodeErrors(member) ==
    IF member.tag = "list" THEN MakeSlice(member.elems) ELSE NilSlice

DecodeData(member) ==
    IF member.tag = "list"
    THEN MakeSlice([i \in 1..Len(member.elems) |-> PushResponse(member.elems[i])])
    ELSE NilSlice

\* json.NewDecoder(resp.RawBody()).Decode(&r)
Decode(body) ==
    CASE body.kind = "invalid" -> [err |-> SyntaxError, r |-> NilResponse]
      [] body.kind = "array"   -> [err |-> UnmarshalTypeError, r |-> NilResponse]
      [] body.kind = "misfit"  -> [err |-> UnmarshalTypeError, r |-> NilResponse]
      [] body.kind = "null"    -> [err |-> NilError, r |-> NilResponse]
      [] OTHER -> [err |-> NilError,
                   r |-> Response(DecodeErrors(body.errors), DecodeData(body.data))]

(***************************************************************************)
(* publishInternal, step by step.                                          *)
(***************************************************************************)
\* The inner loop over message.To, from recipient j on.
RECURSIVE ValidateRecipients(_, _)
ValidateRecipients(to, j) ==
    IF j > Len(to) THEN NilError
    ELSE IF to[j] = "" THEN NewError("invalid push token")
    ELSE ValidateRecipients(to, j + 1)

\* The loop over the messages, from message i on: the first check that
\* fails returns.
RECURSIVE ValidateFrom(_, _)
ValidateFrom(msgs, i) ==
    IF i > Len(msgs) THEN NilError
    ELSE IF Len(msgs[i].To) = 0 THEN NewError("no recipients")
    ELSE IF ~ValidateRecipients(msgs[i].To, 1).isNil
         THEN ValidateRecipients(msgs[i].To, 1)
    ELSE ValidateFrom(msgs, i + 1)

\* A validation that looks for a message without recipients in the whole
\* batch before it looks at any recipient string.
ValidateByKind(msgs) ==
    IF \E i \in 1..Len(msgs) : Len(msgs[i].To) = 0 THEN NewError("no recipients")
    ELSE IF \E i \in 1..Len(msgs) : \E j \in 1..Len(msgs[i].To) : msgs[i].To[j] = ""
         THEN NewError("invalid push token")
    ELSE NilError

Validate(msgs) == ValidateFrom(msgs, 1)

\* The request handed to the transport: POST <apiURL>/push/send with the
\* whole list as its JSON body, under the transport's host and headers.
Request(c, msgs) ==
    [method |-> "POST", url |-> c.apiURL \o "/push/send", host |-> c.httpClient.host,
     headers |-> c.httpClient.headers, body |-> msgs]

\* A status check whose lower bound is off by one.
checkStatusAbove200(rs) ==
    IF rs.code > 200 /\ rs.code <= 299
    THEN NilError
    ELSE NewError("invalid response (" \o ToString(rs.code) \o " " \o rs.status \o ")")

checkStatus(rs) ==
    IF rs.code >= 200 /\ rs.code <= 299
    THEN NilError
    ELSE NewError("invalid response (" \o ToString(rs.code) \o " " \o rs.status \o ")")

\* fmt.Sprintf of the mismatch message with len(messages) and len(r.Data).
MismatchMessage(n, m) ==
    "Mismatched response length. Expected " \o ToString(n)
        \o " receipts but only received " \o ToString(m)

\* A pairing that walks the messages from the end.
PairReversed(data, msgs) ==
    MakeSlice([i \in 1..Len(data.elems) |->
                   [data.elems[i] EXCEPT !.PushMessage = msgs[Len(msgs) + 1 - i]]])

\* r.Data[i].PushMessage = messages[i] for every i of r.Data.
Pair(data, msgs) ==
    MakeSlice([i \in 1..Len(data.elems) |->
                   [data.elems[i] EXCEPT !.PushMessage = msgs[i]]])

\* How a call ends: what it did to the transport and the body, and what it
\* returned (or that it panicked).
Return(sent, rs, read, closed, res, e) ==
    [posted |-> sent, resp |-> rs, bodyRead |-> read, bodyClosed |-> closed,
     outcome |-> "returned", results |-> res, err |-> e]

Panic(sent, rs, read, closed) ==
    [posted |-> sent, resp |-> rs, bodyRead |-> read, bodyClosed |-> closed,
     outcome |-> "panicked", results |-> NilSlice, err |-> NilError]

\* After the status check: the deferred Close is registered, so the body is
\* closed however the rest ends, a panic included.
decodeAndReconcile(sent, rs, msgs) ==
    LET d == Decode(rs.body)
        r == d.r
    IN  IF ~d.err.isNil THEN Return(sent, rs, TRUE, TRUE, NilSlice, d.err)
        ELSE IF r.isNil THEN Panic(sent, rs, TRUE, TRUE)    \* r.Errors on a nil r
        ELSE IF ~r.Errors.isNil
             THEN Return(sent, rs, TRUE, TRUE, NilSlice,
                         NewPushServerError("Invalid server response", r.Errors))
        ELSE IF r.Data.isNil
             THEN Return(sent, rs, TRUE, TRUE, NilSlice,
                         NewPushServerError("Invalid server response", NilSlice))
        ELSE IF Len(msgs) # Len(r.Data.elems)
             THEN Return(sent, rs, TRUE, TRUE, NilSlice,
                         NewPushServerError(
                             MismatchMessage(Len(msgs), Len(r.Data.elems)), NilSlice))
        ELSE Return(sent, rs, TRUE, TRUE, Pair(r.Data, msgs), NilError)

\* publishInternal(messages) on client c, the transport answering with reply.
publishInternal(c, msgs, reply) ==
    IF ~Validate(msgs).isNil
    THEN Return(<<>>, NoResp, FALSE, FALSE, NilSlice, Validate(msgs))
    ELSE IF c.httpClient.isNil
         THEN Panic(<<>>, NoResp, FALSE, FALSE)    \* POST on a nil interface
    ELSE IF ~reply.err.isNil
         THEN Return(<<Request(c, msgs)>>, NoResp, FALSE, FALSE, NilSlice, reply.err)
    ELSE IF ~checkStatus(reply.resp).isNil
         THEN Return(<<Request(c, msgs)>>, reply.resp, FALSE, FALSE, NilSlice,
                     checkStatus(reply.resp))
    ELSE decodeAndReconcile(<<Request(c, msgs)>>, reply.resp, msgs)

\* The transport answers only when it is asked: the batch passed validation
\* and the client has a transport to call.
NoReply == [err |-> NilError, resp |-> NoResp]

Answers(c, msgs) ==
    IF Validate(msgs).isNil /\ ~c.httpClient.isNil THEN Replies ELSE {NoReply}

(***************************************************************************)
(* The state machine.                                                      *)
(***************************************************************************)
NoCall ==
    /\ messages = <<>>
    /\ posted = <<>>
    /\ resp = NoResp
    /\ bodyRead = FALSE
    /\ bodyClosed = FALSE
    /\ outcome = "none"
    /\ results = NilSlice
    /\ err = NilError

ResetCall ==
    /\ messages' = <<>>
    /\ posted' = <<>>
    /\ resp' = NoResp
    /\ bodyRead' = FALSE
    /\ bodyClosed' = FALSE
    /\ outcome' = "none"
    /\ results' = NilSlice
    /\ err' = NilError

Init ==
    /\ config = NilConfig
    /\ client = NoClient
    /\ NoCall

\* NewPushClient(config): a new client, on which nothing was called yet.
NewPushClient(cfg) ==
    /\ outcome = "none"
    /\ config' = cfg
    /\ client' = NewClient(cfg)
    /\ ResetCall

\* c.PublishMultiple(msgs), from the call to its return or panic; the
\* transport answers with reply if it is asked.
PublishMultiple ==
    /\ client.constructed
    /\ outcome = "none"
    /\ \E msgs \in Batches : \E reply \in Answers(client, msgs) :
           LET call == publishInternal(client, msgs, reply)
           IN  /\ messages' = msgs
               /\ posted' = call.posted
               /\ resp' = call.resp
               /\ bodyRead' = call.bodyRead
               /\ bodyClosed' = call.bodyClosed
               /\ outcome' = call.outcome
               /\ results' = call.results
               /\ err' = call.err
    /\ UNCHANGED <<config, client>>

\* The caller is done with the call's result; the client is ready for the
\* next call.
NextCall ==
    /\ outcome # "none"
    /\ ResetCall
    /\ UNCHANGED <<config, client>>

Next ==
    \/ \E cfg \in Configs : NewPushClient(cfg)
    \/ PublishMultiple
    \/ NextCall

Spec == Init /\ [][Next]_vars

(***************************************************************************)
(* What the claims speak of.                                               *)
(***************************************************************************)
Called == outcome # "none"

\* Every message has a recipient and no recipient is the empty string.
AllValid(msgs) ==
    \A i \in 1..Len(msgs) :
        /\ Len(msgs[i].To) > 0
        /\ \A j \in 1..Len(msgs[i].To) : msgs[i].To[j] # ""

NoRecipients(m) == Len(m.To) = 0

EmptyToken(m) == \E j \in 1..Len(m.To) : m.To[j] = ""

Offending(m) == NoRecipients(m) \/ EmptyToken(m)

Is2xx(code) == code \in 200..299

IsValidationError(e) ==
    ~e.isNil /\ e.type = "error" /\ e.msg \in {"no recipients", "invalid push token"}

Failed == outcome = "returned" /\ ~err.isNil /\ results.isNil

Succeeded == outcome = "returned" /\ err.isNil /\ ~results.isNil

\* The response's "errors" member counts no batch-level error: it is absent,
\* null or an empty list.
NoBatchErrors(body) == body.errors.tag # "list" \/ Len(body.errors.elems) = 0

\* The call got a 2xx response whose body is a JSON object of the envelope.
GotEnvelope == Called /\ resp.present /\ Is2xx(resp.code) /\ resp.body.kind = "object"

(***************************************************************************)
(* C1: a batch with an offending message fails with a validation error     *)
(* and the transport is never asked; a batch of valid messages makes       *)
(* exactly one POST, carrying the whole ordered list.                      *)
(***************************************************************************)
C1_ValidateThenOnePost ==
    Called =>
        IF AllValid(messages)
        THEN /\ Len(posted) = 1
             /\ posted[1].method = "POST"
             /\ posted[1].url = client.apiURL \o "/push/send"
             /\ posted[1].body = messages
        ELSE /\ outcome = "returned"
             /\ IsValidationError(err)
             /\ posted = <<>>

(***************************************************************************)
(* C2: a successful call returns as many results as there were messages,   *)
(* result i being item i of the response's data list, unchanged, with      *)
(* message i attached.                                                     *)
(***************************************************************************)
C2_PairedByPosition ==
    Called /\ outcome = "returned" /\ err.isNil =>
        LET wire == resp.body.data.elems
        IN  /\ ~results.isNil
            /\ Len(results.elems) = Len(messages)
            /\ Len(wire) = Len(messages)
            /\ \A i \in 1..Len(messages) :
                   results.elems[i] =
                       [Status |-> wire[i].status, ID |-> wire[i].id,
                        Message |-> wire[i].message, PushMessage |-> messages[i]]

\* A successful call of two different messages answered by two different items.
C2_Witness ==
    /\ Succeeded
    /\ Len(messages) = 2
    /\ messages[1] # messages[2]
    /\ results.elems[1].Status = "error"
    /\ results.elems[2].Status = "ok"

(***************************************************************************)
(* C3: every call ends either with a result list and no error, or with an  *)
(* error and no result list; an item with status "error" in a valid        *)
(* envelope is part of a successful result, not an error.                  *)
(***************************************************************************)
C3_ResultsOrError ==
    Called =>
        /\ Succeeded \/ Failed
        /\ ( /\ GotEnvelope
             /\ resp.body.errors.tag = "absent"
             /\ resp.body.data.tag = "list"
             /\ Len(resp.body.data.elems) = Len(messages)
             => Succeeded )

(***************************************************************************)
(* C4: whenever the transport returned a response, its body is closed by   *)
(* the time the call ends.                                                 *)
(***************************************************************************)
C4_BodyClosed == Called /\ resp.present => bodyClosed

(***************************************************************************)
(* C5: a status code outside 200..299 fails the call with the status error *)
(* carrying the code and the status text, and the body is never read; a    *)
(* status code inside 200..299 passes the check and the body is decoded.   *)
(***************************************************************************)
C5_StatusBeforeDecode ==
    Called /\ resp.present =>
        IF Is2xx(resp.code)
        THEN bodyRead
        ELSE /\ Failed
             /\ err.type = "error"
             /\ err.msg = "invalid response (" \o ToString(resp.code) \o " "
                              \o resp.status \o ")"
             /\ ~bodyRead

\* A 500 whose body is a well-formed envelope with data of matching length.
C5_Witness ==
    /\ Called
    /\ resp.present
    /\ resp.code = 500
    /\ resp.body.kind = "object"
    /\ resp.body.errors.tag = "absent"
    /\ resp.body.data.tag = "list"
    /\ Len(messages) = 2
    /\ Len(resp.body.data.elems) = 2

(***************************************************************************)
(* C6: a 2xx envelope without batch-level errors whose data list has M     *)
(* items for N messages, M # N, fails with the PushServerError "Mismatched *)
(* response length. Expected N receipts but only received M" and returns   *)
(* no results.                                                             *)
(***************************************************************************)
C6_LengthMismatch ==
    /\ GotEnvelope
    /\ NoBatchErrors(resp.body)
    /\ resp.body.data.tag = "list"
    /\ Len(resp.body.data.elems) # Len(messages)
    => /\ Failed
       /\ err.type = "PushServerError"
       /\ err.msg = "Mismatched response length. Expected "
                        \o ToString(Len(messages))
                        \o " receipts but only received "
                        \o ToString(Len(resp.body.data.elems))

(***************************************************************************)
(* C7: a 2xx envelope fails with the batch-level PushServerError "Invalid  *)
(* server response", carrying the envelope's errors, exactly when its      *)
(* errors list is present and not empty; an envelope whose errors list is  *)
(* absent or empty and whose data list is as long as the input succeeds.   *)
(***************************************************************************)
BatchLevelFailure ==
    /\ Failed
    /\ err.type = "PushServerError"
    /\ err.msg = "Invalid server response"
    /\ ~err.errors.isNil
    /\ err.errors.elems = resp.body.errors.elems

C7_BatchErrorsIffNonEmpty ==
    GotEnvelope =>
        /\ BatchLevelFailure <=> ~NoBatchErrors(resp.body)
        /\ ( /\ NoBatchErrors(resp.body)
             /\ resp.body.data.tag = "list"
             /\ Len(resp.body.data.elems) = Len(messages)
             => Succeeded )

(***************************************************************************)
(* C8: NewPushClient always yields a usable client: host and API path are  *)
(* the defaults unless overridden, the transport is never nil, a transport *)
(* built at construction sends Authorization only for a non-empty          *)
(* credential, and a PublishMultiple of valid messages reaches the         *)
(* transport.                                                              *)
(***************************************************************************)
C8_UsableClient ==
    client.constructed =>
        /\ client.host = IF ~config.isNil /\ config.Host # ""
                         THEN config.Host ELSE DefaultHost
        /\ client.apiURL = IF ~config.isNil /\ config.APIURL # ""
                           THEN config.APIURL ELSE DefaultBaseAPIURL
        /\ ~client.httpClient.isNil
        /\ ( config.HTTPClient.isNil =>
                 ( (\E h \in client.httpClient.headers : h[1] = "Authorization")
                   <=> client.accessToken # "" ) )
        /\ ( Called /\ AllValid(messages) => Len(posted) = 1 )

(***************************************************************************)
(* C9: a 2xx response whose body is not JSON, or is JSON that is not an    *)
(* object of the envelope shape (the literal null included), makes the     *)
(* call return a decode error; the call does not crash.                    *)
(***************************************************************************)
C9_DecodeErrorReturned ==
    /\ Called
    /\ resp.present
    /\ Is2xx(resp.code)
    /\ resp.body.kind \in {"invalid", "null", "array", "misfit"}
    => /\ Failed
       /\ err.type \in {"json.SyntaxError", "json.UnmarshalTypeError"}

(***************************************************************************)
(* C10 as stated: a batch with a message without recipients fails with     *)
(* "no recipients", and a batch with an empty recipient string fails with  *)
(* "invalid push token", whatever else the batch holds.                    *)
(***************************************************************************)
C10_EitherOffenceDecides ==
    Called =>
        /\ ( (\E i \in 1..Len(messages) : NoRecipients(messages[i]))
             => Failed /\ err.type = "error" /\ err.msg = "no recipients" )
        /\ ( (\E i \in 1..Len(messages) : EmptyToken(messages[i]))
             => Failed /\ err.type = "error" /\ err.msg = "invalid push token" )

(***************************************************************************)
(* C10 amended: a batch with an offending message fails with the           *)
(* validation error of its first offending message: "no recipients" if     *)
(* that message has no recipients, "invalid push token" if it holds an     *)
(* empty recipient string.                                                 *)
(***************************************************************************)
FirstOffending(msgs) ==
    CHOOSE i \in 1..Len(msgs) :
        Offending(msgs[i]) /\ \A k \in 1..(i - 1) : ~Offending(msgs[k])

C10_FirstOffenceDecides ==
    Called /\ ~AllValid(messages) =>
        /\ Failed
        /\ err.type = "error"
        /\ posted = <<>>
        /\ err.msg = IF NoRecipients(messages[FirstOffending(messages)])
                     THEN "no recipients"
                     ELSE "invalid push token"

\* A batch whose first message holds an empty recipient string and whose
\* second message has no recipients.
C10_Witness ==
    /\ Called
    /\ Len(messages) = 2
    /\ EmptyToken(messages[1])
    /\ NoRecipients(messages[2])
    /\ err.msg = "invalid push token"

====
